---- MODULE Spec2Model ----
(***************************************************************************)
(* Two-stage stochastic production planning (src/src/recourse.py): the     *)
(* model-formulation layer (variables, objectives, constraints), the       *)
(* evaluation procedures EV, EEV, WS, TS and the Multiple Replications     *)
(* Procedure.                                                              *)
(*                                                                         *)
(* Numbers.  Every quantity (production, demand, capacity, ...) is a       *)
(* fixed-point number counted in halves: the integer 3 stands for 1.5.     *)
(* Cost coefficients and the technology matrix A are plain integers, so a  *)
(* cost times a quantity is again counted in halves.  A quantity is        *)
(* integral when it is even.  A quotient (obj / S) is kept as an exact     *)
(* fraction [num, den]; floating-point rounding is not modelled.           *)
(*                                                                         *)
(* Arrays.  A numpy array is a record [shape, flat]: its shape and its     *)
(* entries in row-major order, so that ndim, flatten, broadcasting and     *)
(* slicing are what numpy does.  Sequences are 1-based: entry (r, t) of    *)
(* the source is flat[r * L + t + 1].                                      *)
(*                                                                         *)
(* Solver.  gurobipy is an external library.  optimize() is modelled as    *)
(* exact minimisation of the model's objective over the points of a        *)
(* bounded grid that satisfy the model's constraints and variable bounds   *)
(* (step one half for continuous variables, one unit for integer ones).    *)
(* The procedures set no limit and no tolerance (only LogToConsole), and   *)
(* every cost is non-negative, so a model that has a solution ends         *)
(* OPTIMAL.  For a model that has none the status is the solver's choice:  *)
(* INFEASIBLE, or INF_OR_UNBD when presolve stops before telling           *)
(* infeasible from unbounded (the default DualReductions = 1).  Either     *)
(* way no objective value is available.                                    *)
(***************************************************************************)
EXTENDS Integers, Sequences, FiniteSets, TLC

VARIABLES
    inp,        \* arguments of the model-builder function under study
    out,        \* what that function produced
    pars,       \* Parameters (read-only problem description)
    intvars,    \* configuration flag: integer instead of continuous variables
    samples,    \* sample array (S, n, s) handed to EEV, WS and TS
    pc,         \* position of the running procedure
    mdl,        \* the procedure's gurobipy model
    sub,        \* run_MRP's submodel
    i,          \* scenario loop index
    results,    \* EEV / WS: list of objectives collected so far
    ret,        \* values returned by the procedures that have returned
    mrp,        \* run_MRP's arguments and locals
    log         \* the fix_var and optimize() calls of the running scenario loop

vars == <<inp, out, pars, intvars, samples, pc, mdl, sub, i, results, ret, mrp, log>>

\* Python's None
None == [none |-> TRUE]

(***************************************************************************)
(* Bounds of the model.                                                    *)
(***************************************************************************)
\* Largest value (in halves) of a grid point of X, U, Z+ and Z-.
MaxVal == 2
\* Largest number of scenarios in a sample array.
MaxScen == 2
\* Largest sum of the entries of the arrays drawn for a builder function.
MaxTotal == 4
\* Largest number of copies of a scenario in the replicated 3-D array.
MaxCopies == 3

MaxReplicas == 2

MaxSeed == 1

(***************************************************************************)
(* numpy                                                                   *)
(***************************************************************************)
RECURSIVE SumSeq(_)
SumSeq(q) == IF q = <<>> THEN 0 ELSE Head(q) + SumSeq(Tail(q))

RECURSIVE Prod(_)
Prod(shape) == IF shape = <<>> THEN 1 ELSE Head(shape) * Prod(Tail(shape))

Nd(shape, flat) == [shape |-> shape, flat |-> flat]

ndim(arr) == Len(arr.shape)

flatten(arr) == arr.flat

LastDim(arr) == arr.shape[Len(arr.shape)]

\* arr[r, t] with r the row-major index over the leading axes, both 0-based
Elem(arr, r, t) == arr.flat[r * LastDim(arr) + t + 1]

\* shape with its last axis set to L
WithLast(shape, L) == [shape EXCEPT ![Len(shape)] = L]

\* np.zeros(shape)
zeros(shape) == Nd(shape, [p \in 1..Prod(shape) |-> 0])

\* the entry of arr that numpy broadcasting pairs with flat position p of an
\* array whose trailing axes are those of arr
BAt(arr, p) == arr.flat[((p - 1) % Len(arr.flat)) + 1]

BShape(x, y) == IF Len(x.flat) > Len(y.flat) \/ (Len(x.flat) = Len(y.flat) /\ Len(x.shape) >= Len(y.shape))
                THEN x.shape ELSE y.shape

\* x + y, x - y, x * y (element-wise, broadcast)
Add(x, y) == Nd(BShape(x, y), [p \in 1..Prod(BShape(x, y)) |-> BAt(x, p) + BAt(y, p)] @@ <<>>)

Sub(x, y) == Nd(BShape(x, y), [p \in 1..Prod(BShape(x, y)) |-> BAt(x, p) - BAt(y, p)] @@ <<>>)

Mul(x, y) == Nd(BShape(x, y), [p \in 1..Prod(BShape(x, y)) |-> BAt(x, p) * BAt(y, p)] @@ <<>>)

\* arr.sum()
sum(arr) == SumSeq(arr.flat)

\* np.concatenate((np.zeros((*arr.shape[:-1], 1)), arr), axis=-1)
ConcatZeros(arr) ==
    LET L == LastDim(arr)
    IN Nd(WithLast(arr.shape, L + 1),
          [p \in 1..(Len(arr.flat) \div L) * (L + 1) |->
              IF (p - 1) % (L + 1) = 0 THEN 0
              ELSE Elem(arr, (p - 1) \div (L + 1), ((p - 1) % (L + 1)) - 1)])

\* arr[..., :-1]
DropLast(arr) ==
    LET L == LastDim(arr)
    IN Nd(WithLast(arr.shape, L - 1),
          [p \in 1..(Len(arr.flat) \div L) * (L - 1) |->
              Elem(arr, (p - 1) \div (L - 1), (p - 1) % (L - 1))])

\* arr[..., 1:]
DropFirst(arr) ==
    LET L == LastDim(arr)
    IN Nd(WithLast(arr.shape, L - 1),
          [p \in 1..(Len(arr.flat) \div L) * (L - 1) |->
              Elem(arr, (p - 1) \div (L - 1), ((p - 1) % (L - 1)) + 1)])

\* A[:, -1] of a 2-D array
LastColumn(A) == Nd(<<A.shape[1]>>, [r \in 1..A.shape[1] |-> Elem(A, r - 1, A.shape[2] - 1)])

\* v @ M for a vector v (n) and a matrix M (n, k)
VecMat(v, M) ==
    Nd(<<M.shape[2]>>,
       [t \in 1..M.shape[2] |-> SumSeq([j \in 1..M.shape[1] |-> v.flat[j] * Elem(M, j - 1, t - 1)])])

\* A.T @ X for A (n, m) and X (n, s)
TMatMul(A, X) ==
    Nd(<<A.shape[2], X.shape[2]>>,
       [p \in 1..A.shape[2] * X.shape[2] |->
           SumSeq([j \in 1..A.shape[1] |->
               Elem(A, j - 1, (p - 1) \div X.shape[2]) * Elem(X, j - 1, (p - 1) % X.shape[2])])])

\* samples[k] of a 3-D array (k 0-based)
Scenario(arr, k) ==
    LET sz == arr.shape[2] * arr.shape[3]
    IN Nd(<<arr.shape[2], arr.shape[3]>>, [p \in 1..sz |-> arr.flat[k * sz + p]])

\* exact fractions in lowest terms; the operands are evaluated once
Rat(num, den) == [num |-> num, den |-> den]

RECURSIVE GCD(_, _)
GCD(x, y) == IF y = 0 THEN x ELSE GCD(y, x % y)

Reduced(num, den) ==
    LET g == GCD(IF num >= 0 THEN num ELSE 0 - num, den)
    IN Rat((IF num >= 0 THEN num \div g ELSE 0 - ((0 - num) \div g)), den \div g)

RatAdd(x, y) ==
    CHOOSE r \in {Reduced(u.num * v.den + v.num * u.den, u.den * v.den) : u \in {x}, v \in {y}} : TRUE

RatSub(x, y) ==
    CHOOSE r \in {Reduced(u.num * v.den - v.num * u.den, u.den * v.den) : u \in {x}, v \in {y}} : TRUE

RatMul(x, y) ==
    CHOOSE r \in {Reduced(u.num * v.num, u.den * v.den) : u \in {x}, v \in {y}} : TRUE

\* x / n for an integer n > 0
RatDiv(x, n) == CHOOSE r \in {Reduced(u.num, u.den * n) : u \in {x}} : TRUE

RECURSIVE RatSum(_)
RatSum(q) == IF q = <<>> THEN Rat(0, 1) ELSE RatAdd(Head(q), RatSum(Tail(q)))

RatEq(x, y) == x.num * y.den = y.num * x.den

RatLeq(x, y) == x.num * y.den <= y.num * x.den

\* float(v).astype(int) on a quantity counted in halves: truncation toward zero
AsInt(v) == IF v >= 0 THEN (v \div 2) * 2 ELSE 0 - (((0 - v) \div 2) * 2)

astype_int(arr) == Nd(arr.shape, [p \in 1..Len(arr.flat) |-> AsInt(arr.flat[p])])

IsIntegral(v) == v % 2 = 0

\* all pairs <<q, rest>> with q a sequence of k naturals of sum total - rest
RECURSIVE SeqsWithRest(_, _)
SeqsWithRest(k, total) ==
    IF k = 0 THEN {<<<<>>, total>>}
    ELSE UNION {{<<Append(e[1], v), e[2] - v>> : v \in 0..e[2]} : e \in SeqsWithRest(k - 1, total)}

\* all sequences of k naturals whose sum is at most total
SeqsUpTo(k, total) == {e[1] : e \in SeqsWithRest(k, total)}

Min(S) == CHOOSE c \in S : \A c2 \in S : c <= c2

(***************************************************************************)
(* gurobipy model objects                                                  *)
(*                                                                         *)
(* A model holds its variable groups (each an array of variables with      *)
(* per-entry bounds), its constraint groups, the parts of its objective,   *)
(* the numeric data bound into its constraints at build time, and the      *)
(* outcome of its last optimize() call.                                    *)
(***************************************************************************)
CONTINUOUS == "C"

INTEGER == "I"

LOADED == "LOADED"

OPTIMAL == "OPTIMAL"

INFEASIBLE == "INFEASIBLE"

INF_OR_UNBD == "INF_OR_UNBD"

\* the statuses optimize() can leave on a model that has no solution
NoSolutionStatus == {INFEASIBLE, INF_OR_UNBD}

\* gb.Model(name=...)
Model(name) ==
    [name |-> name, vars |-> <<>>, constrs |-> <<>>, objective |-> <<>>,
     data |-> <<>>, Status |-> LOADED, ObjVal |-> None, x |-> <<>>,
     solves |-> 0, disposed |-> FALSE]

NoModel == [name |-> "", disposed |-> TRUE]

\* mdl.addVars(*size, lb=lb, [ub=ub,] vtype=TYPE, name=name); ub is <<>> when
\* no upper bound is given (the variable is unbounded above) and <<u>> otherwise
addVars(m, name, size, lb, ub, TYPE) ==
    [m EXCEPT !.vars = (name :> [shape |-> size, vtype |-> TYPE,
                                 lb |-> [q \in 1..Prod(size) |-> lb],
                                 bounded |-> ub # <<>>,
                                 ub |-> [q \in 1..Prod(size) |-> IF ub = <<>> THEN 0 ELSE ub[1]]]) @@ @]

\* mdl.addConstrs((con[i] <sense> 0 for i in range(con.size)), name=name)
addConstrs(m, name, sense, size) ==
    [m EXCEPT !.constrs = Append(@, [name |-> name, sense |-> sense, size |-> size])]

ConstrNames(m) == {m.constrs[c].name : c \in 1..Len(m.constrs)}

\* mdl.dispose()
dispose(m) == [m EXCEPT !.disposed = TRUE]

(***************************************************************************)
(* Model builder                                                           *)
(***************************************************************************)
\* recourse.py add_1st_stage_variables: X (n, s), U (m, s), Z+ and Z- (s - 1,)
add_1st_stage_variables_neg_lb(m, p, iv) ==
    LET TYPE == IF iv THEN INTEGER ELSE CONTINUOUS
    IN addVars(addVars(addVars(addVars(m,
           "X", <<p.n, p.s>>, 0 - 1, <<>>, TYPE),
           "U", <<p.m, p.s>>, 0 - 1, <<>>, TYPE),
           "Z+", <<p.s - 1>>, 0 - 1, <<>>, TYPE),
           "Z-", <<p.s - 1>>, 0 - 1, <<>>, TYPE)

add_1st_stage_variables(m, p, iv) ==
    LET TYPE == IF iv THEN INTEGER ELSE CONTINUOUS
    IN addVars(addVars(addVars(addVars(m,
           "X", <<p.n, p.s>>, 0, <<>>, TYPE),
           "U", <<p.m, p.s>>, 0, <<>>, TYPE),
           "Z+", <<p.s - 1>>, 0, <<>>, TYPE),
           "Z-", <<p.s - 1>>, 0, <<>>, TYPE)

\* recourse.py add_2nd_stage_variables: Y+ and Y-, (n, s) for one scenario
\* and (scenarios, n, s) otherwise
add_2nd_stage_variables(m, p, scenarios, iv) ==
    LET TYPE == IF iv THEN INTEGER ELSE CONTINUOUS
        size == IF scenarios = 1 THEN <<p.n, p.s>> ELSE <<scenarios, p.n, p.s>>
    IN addVars(addVars(m, "Y+", size, 0, <<>>, TYPE), "Y-", size, 0, <<>>, TYPE)

\* recourse.py fix_var: lb = ub = value, entry by entry of the flattened arrays
fix_var_ub_only(m, var, value) ==
    [m EXCEPT !.vars[var].ub = flatten(value), !.vars[var].bounded = TRUE]

fix_var(m, var, value) ==
    [m EXCEPT !.vars[var].lb = flatten(value),
              !.vars[var].ub = flatten(value),
              !.vars[var].bounded = TRUE]

\* recourse.py get_1st_stage_objective: sum of (cost * var).sum() over
\* (X, C1), (U, C2), (Z+, C3+), (Z-, C3-); v maps the names to numeric arrays
get_1st_stage_objective(p, v) ==
    sum(Mul(p.C1, v["X"])) + sum(Mul(p.C2, v["U"]))
        + sum(Mul(p["C3+"], v["Z+"])) + sum(Mul(p["C3-"], v["Z-"]))

\* recourse.py get_2nd_stage_objective: the weighted sum over all entries
\* divided by the scenario count S (1 for a 2-D array)
get_2nd_stage_objective_nodiv(p, v) ==
    Rat(sum(Mul(p["Q+"], v["Y+"])) + sum(Mul(p["Q-"], v["Y-"])), 1)

get_2nd_stage_objective(p, v) ==
    LET S == IF ndim(v["Y+"]) = 2 THEN 1 ELSE v["Y+"].shape[1]
        obj == sum(Mul(p["Q+"], v["Y+"])) + sum(Mul(p["Q-"], v["Y-"]))
    IN Rat(obj, S)

\* recourse.py add_1st_stage_constraints, the three con arrays
con_product(p, v) == flatten(Sub(Sub(TMatMul(p.A, v["X"]), p.B), v["U"]))

con_work_row(p, v) ==
    flatten(Sub(Sub(v["Z+"], v["Z-"]),
                VecMat(Nd(<<p.A.shape[1]>>, [r \in 1..p.A.shape[1] |-> Elem(p.A, p.A.shape[1] - 1, r - 1)]),
                       Sub(DropFirst(v["X"]), DropLast(v["X"])))))

con_work(p, v) ==
    flatten(Sub(Sub(v["Z+"], v["Z-"]),
                VecMat(LastColumn(p.A), Sub(DropFirst(v["X"]), DropLast(v["X"])))))

con_extracap(p, v) == flatten(Sub(v["U"], p.UB))

add_1st_stage_constraints(m, p) ==
    addConstrs(addConstrs(addConstrs(m,
        "con_product", "<=", p.m * p.s),
        "con_work", "==", p.s - 1),
        "con_extracap", "<=", p.m * p.s)

\* recourse.py add_2nd_stage_constraints, the con array: zero surplus is
\* carried into the first period
con_demand_nocarry(X, Yp, Ym, demands) ==
    flatten(Sub(Sub(Add(X, Yp), Ym), demands))

con_demand(X, Yp, Ym, demands) ==
    LET Ym0 == ConcatZeros(Ym)
    IN flatten(Sub(Sub(Add(Add(X, DropLast(Ym0)), Yp), DropFirst(Ym0)), demands))

\* a first-stage dict made of the model's own variables
Symbolic == [symbolic |-> TRUE]

\* recourse.py add_2nd_stage_constraints: vars_1st is Symbolic or a numeric
\* dict whose X is bound into the constraints; with demands = None new
\* variables "demand" (lb = ub = 0) are added and used in the constraints
add_2nd_stage_constraints(m, p, vars_1st, demands) ==
    LET S == IF Len(m.vars["Y+"].shape) = 2 THEN 1 ELSE m.vars["Y+"].shape[1]
        size == IF S = 1 THEN <<p.n, p.s>> ELSE <<S, p.n, p.s>>
        m1 == IF vars_1st = Symbolic THEN m
              ELSE [m EXCEPT !.data = ("X" :> vars_1st["X"]) @@ @]
        m2 == IF demands = None
              THEN addVars(m1, "demand", size, 0, <<0>>, CONTINUOUS)
              ELSE [m1 EXCEPT !.data = ("demands" :> demands) @@ @]
        consize == IF demands = None \/ Len(demands.flat) <= Prod(size)
                   THEN Prod(size) ELSE Len(demands.flat)
    IN addConstrs(m2, "con_demand", "==", consize)

(***************************************************************************)
(* Feasible points.  A point maps each variable group of the model to a    *)
(* numeric array of the group's shape.                                     *)
(***************************************************************************)
InBounds(g, arr) ==
    \A q \in 1..Len(arr.flat) :
        /\ g.lb[q] <= arr.flat[q]
        /\ g.bounded => arr.flat[q] <= g.ub[q]
        /\ g.vtype = INTEGER => IsIntegral(arr.flat[q])

\* the first-stage dict and the demand the constraints of m see at point pt
FirstStageAt(m, pt) == IF "X" \in DOMAIN m.data THEN m.data ELSE pt

DemandAt(m, pt) == IF "demands" \in DOMAIN m.data THEN m.data["demands"] ELSE pt["demand"]

ConArray(m, p, name, pt) ==
    CASE name = "con_product" -> con_product(p, pt)
      [] name = "con_work" -> con_work(p, pt)
      [] name = "con_extracap" -> con_extracap(p, pt)
      [] name = "con_demand" ->
            con_demand(FirstStageAt(m, pt)["X"], pt["Y+"], pt["Y-"], DemandAt(m, pt))

Satisfies(m, p, pt) ==
    /\ \A name \in DOMAIN m.vars : InBounds(m.vars[name], pt[name])
    /\ \A c \in 1..Len(m.constrs) :
          LET con == ConArray(m, p, m.constrs[c].name, pt)
          IN \A q \in 1..Len(con) :
                IF m.constrs[c].sense = "==" THEN con[q] = 0 ELSE con[q] <= 0

(***************************************************************************)
(* optimize().  The variables of the recourse models have no upper bound;  *)
(* the search is over a box that holds an optimal point of every model     *)
(* built from ParsSet below (costs are >= 0, capacity B + UB is at most    *)
(* MaxVal, buying early and storing is never cheaper than buying late):    *)
(* X, U, Z+, Z-, Y+ up to MaxVal and Y- up to s * MaxVal.  A model with    *)
(* first-stage variables is minimised stage by stage: for every feasible   *)
(* first-stage point the best recourse of each scenario is added.          *)
(***************************************************************************)
Max(S) == CHOOSE c \in S : \A c2 \in S : c >= c2

GridHi(name, p) == IF name = "Y-" THEN p.s * MaxVal ELSE MaxVal

\* the arrays of group g's shape within its bounds (and hi where unbounded)
Points(g, hi) ==
    LET lo == Min({g.lb[q] : q \in 1..Len(g.lb)})
        up == IF g.bounded THEN Max({g.ub[q] : q \in 1..Len(g.ub)}) ELSE hi
    IN {Nd(g.shape, f) : f \in {f \in [1..Len(g.lb) -> lo..up] : InBounds(g, Nd(g.shape, f))}}

\* the variables of scenario k (0-based) of a group of shape (S, n, s); a
\* 2-D group is its own single scenario
GroupOf(g, k, p) ==
    IF Len(g.shape) = 2 THEN g
    ELSE [shape |-> <<p.n, p.s>>, vtype |-> g.vtype, bounded |-> g.bounded,
          lb |-> SubSeq(g.lb, k * p.n * p.s + 1, (k + 1) * p.n * p.s),
          ub |-> SubSeq(g.ub, k * p.n * p.s + 1, (k + 1) * p.n * p.s)]

\* numeric demand as a group fixed to it
FixedGroup(arr) ==
    [shape |-> arr.shape, vtype |-> CONTINUOUS, bounded |-> TRUE, lb |-> arr.flat, ub |-> arr.flat]

\* the demand of scenario k: placeholder variables or bound data
DemandGroup(m, k, p) ==
    IF "demands" \in DOMAIN m.data
    THEN FixedGroup(Nd(<<p.n, p.s>>,
             SubSeq(m.data["demands"].flat, k * p.n * p.s + 1, (k + 1) * p.n * p.s)))
    ELSE GroupOf(m.vars["demand"], k, p)

\* the best recourse of one scenario for a first-stage X
Recourse(p, gp, gm, gd, X) ==
    LET F == {c \in Points(gp, GridHi("Y+", p)) \X Points(gm, GridHi("Y-", p)) \X Points(gd, 0) :
                 con_demand(X, c[1], c[2], c[3]) = [q \in 1..p.n * p.s |-> 0]}
        E == {<<get_2nd_stage_objective(p, ("Y+" :> c[1]) @@ ("Y-" :> c[2])).num, c>> : c \in F}
    IN IF F = {} THEN [feasible |-> FALSE]
       ELSE LET e == CHOOSE e \in E : \A e2 \in E : e[1] <= e2[1]
            IN [feasible |-> TRUE, Yp |-> e[2][1], Ym |-> e[2][2], demand |-> e[2][3]]

\* the first-stage points of m: its variables X, U, Z+, Z- within their
\* constraints, or the lone variable X (run_MRP's submodel), or none (EEV)
FirstStagePoints(m, p) ==
    IF "U" \in DOMAIN m.vars
    THEN LET names == {"con_product", "con_work", "con_extracap"} \cap ConstrNames(m)
             ok(name, pt) == LET con == ConArray(m, p, name, pt)
                             IN \A q \in 1..Len(con) : IF name = "con_work" THEN con[q] = 0 ELSE con[q] <= 0
         IN {pt \in {("X" :> c[1]) @@ ("U" :> c[2]) @@ ("Z+" :> c[3]) @@ ("Z-" :> c[4]) :
                        c \in Points(m.vars["X"], MaxVal) \X Points(m.vars["U"], MaxVal)
                              \X Points(m.vars["Z+"], MaxVal) \X Points(m.vars["Z-"], MaxVal)} :
                \A name \in names : ok(name, pt)}
    ELSE IF "X" \in DOMAIN m.vars
    THEN {("X" :> x) : x \in Points(m.vars["X"], MaxVal)}
    ELSE {<<>>}

(***************************************************************************)
(* Inputs of the procedures: one product, two periods, one resource.       *)
(***************************************************************************)
Pars(C1, C2, C3p, C3m, Qp, Qm, B, UB, mean) ==
    [n |-> 1, s |-> 2, m |-> 1,
     C1 |-> Nd(<<1, 2>>, C1), C2 |-> Nd(<<1, 2>>, C2),
     A |-> Nd(<<1, 1>>, <<1>>), B |-> Nd(<<1, 2>>, B), UB |-> Nd(<<1, 2>>, UB),
     demand_mean |-> Nd(<<1, 2>>, mean)]
    @@ ("C3+" :> Nd(<<1>>, C3p)) @@ ("C3-" :> Nd(<<1>>, C3m))
    @@ ("Q+" :> Nd(<<1, 2>>, Qp)) @@ ("Q-" :> Nd(<<1, 2>>, Qm))

ParsSet ==
    {Pars(<<1, 1>>, <<2, 2>>, <<1>>, <<1>>, <<3, 3>>, <<1, 1>>, <<1, 1>>, <<1, 1>>, <<2, 1>>),
     Pars(<<1, 2>>, <<1, 1>>, <<0>>, <<0>>, <<2, 2>>, <<0, 0>>, <<1, 1>>, <<0, 0>>, <<2, 2>>),
     Pars(<<2, 1>>, <<1, 1>>, <<1>>, <<0>>, <<4, 3>>, <<1, 2>>, <<2, 2>>, <<0, 0>>, <<1, 2>>)}

\* the demand scenarios (n, s) the sampler can produce; 1 and 3 are not integral
ScenList ==
    <<Nd(<<1, 2>>, <<2, 2>>), Nd(<<1, 2>>, <<0, 2>>), Nd(<<1, 2>>, <<2, 1>>), Nd(<<1, 2>>, <<1, 0>>)>>

ScenSet == {ScenList[j] : j \in 1..Len(ScenList)}

\* the 3-D array (S, n, s) of a sequence of scenarios
RECURSIVE FlatOf(_)
FlatOf(scens) == IF scens = <<>> THEN <<>> ELSE Head(scens).flat \o FlatOf(Tail(scens))

Stack(scens) == Nd(<<Len(scens), 1, 2>>, FlatOf(scens))

(***************************************************************************)
(* Tables of the stage-wise minimisation, computed once.                   *)
(***************************************************************************)
StdY(p, iv) == add_2nd_stage_variables(Model("std"), p, 1, iv).vars

StdFirst(p, iv) == add_1st_stage_constraints(add_1st_stage_variables(Model("std"), p, iv), p)

\* the recourse problems the procedures meet: a producible X against a
\* scenario of the samples or the (truncated) mean demand
RecKeys ==
    UNION {{<<p, iv, Nd(<<1, 2>>, f), d>> :
               f \in {f \in [1..2 -> 0..MaxVal] : \A t \in 1..2 : f[t] <= p.B.flat[t] + p.UB.flat[t]},
               d \in ScenSet \cup {astype_int(d) : d \in ScenSet}
                     \cup {p.demand_mean, astype_int(p.demand_mean)}} :
           p \in ParsSet, iv \in BOOLEAN}

RecTab ==
    [key \in RecKeys |->
        Recourse(key[1], StdY(key[1], key[2])["Y+"], StdY(key[1], key[2])["Y-"],
                 FixedGroup(key[4]), key[3])] @@ <<>>

FirstTab ==
    [key \in ParsSet \X BOOLEAN |->
        FirstStagePoints(StdFirst(key[1], key[2]), key[1])] @@ <<>>

RecourseOpt(p, iv, gp, gm, gd, X) ==
    IF /\ gd.lb = gd.ub
       /\ <<p, iv, X, Nd(gd.shape, gd.lb)>> \in DOMAIN RecTab
       /\ gp = StdY(p, iv)["Y+"] /\ gm = StdY(p, iv)["Y-"]
    THEN RecTab[<<p, iv, X, Nd(gd.shape, gd.lb)>>]
    ELSE Recourse(p, gp, gm, gd, X)

FirstStageOpt(m, p) ==
    IF /\ "U" \in DOMAIN m.vars
       /\ <<p, m.vars["U"].vtype = INTEGER>> \in DOMAIN FirstTab
       /\ \A name \in {"X", "U", "Z+", "Z-"} :
             m.vars[name] = StdFirst(p, m.vars["U"].vtype = INTEGER).vars[name]
       /\ {"con_product", "con_work", "con_extracap"} \subseteq ConstrNames(m)
    THEN FirstTab[<<p, m.vars["U"].vtype = INTEGER>>]
    ELSE FirstStagePoints(m, p)

\* mdl.setObjective(const + [1st stage of the variables] + [2nd stage], GRB.MINIMIZE)
setObjective(m, const, first, second) ==
    [m EXCEPT !.objective = [const |-> const, first |-> first, second |-> second]]

\* the objective of m at a full point
ObjectiveAt(m, p, pt) ==
    RatAdd(Rat(m.objective.const + (IF m.objective.first THEN get_1st_stage_objective(p, pt) ELSE 0), 1),
           IF m.objective.second THEN get_2nd_stage_objective(p, pt) ELSE Rat(0, 1))

RECURSIVE Gather(_, _)
Gather(recs, field) ==
    IF recs = <<>> THEN <<>> ELSE Head(recs)[field].flat \o Gather(Tail(recs), field)

\* the recourse of every scenario (1-based) for the first-stage point pt1
RecourseOfAll(m, p, pt1) ==
    LET gY == m.vars["Y+"]
        S == IF Len(gY.shape) = 2 THEN 1 ELSE gY.shape[1]
    IN [k \in 1..S |->
           RecourseOpt(p, gY.vtype = INTEGER, GroupOf(gY, k - 1, p),
                       GroupOf(m.vars["Y-"], k - 1, p), DemandGroup(m, k - 1, p),
                       FirstStageAt(m, pt1)["X"])] @@ <<>>

\* the full point made of a first-stage point and the recourse of every scenario
FullPoint(m, pt1, recs) ==
    pt1 @@ ("Y+" :> Nd(m.vars["Y+"].shape, Gather(recs, "Yp")))
        @@ ("Y-" :> Nd(m.vars["Y+"].shape, Gather(recs, "Ym")))
        @@ (IF "demand" \in DOMAIN m.vars
            THEN "demand" :> Nd(m.vars["demand"].shape, Gather(recs, "demand"))
            ELSE <<>>)

\* the candidates <<objective, point>>: for every first-stage point with a
\* feasible recourse in every scenario, the point completed by the best recourse
Candidates(m, p) ==
    {<<ObjectiveAt(m, p, full), full>> :
        full \in {FullPoint(m, e[1], e[2]) :
                    e \in {e \in {<<pt1, RecourseOfAll(m, p, pt1)>> : pt1 \in FirstStageOpt(m, p)} :
                              \A k \in DOMAIN e[2] : e[2][k].feasible}}}

Best(V) == CHOOSE v \in V : \A v2 \in V : RatLeq(v[1], v2[1])

\* the model after optimize() found the candidates V; report is the status
\* the solver gives when there is none
Solved(m, V, report) ==
    IF V = {}
    THEN [m EXCEPT !.Status = report, !.ObjVal = None, !.x = <<>>, !.solves = @ + 1]
    ELSE CHOOSE r \in {[m EXCEPT !.Status = OPTIMAL, !.ObjVal = best[1], !.x = best[2],
                                 !.solves = @ + 1] : best \in {Best(V)}} : TRUE

\* mdl.optimize(): Status, and ObjVal and the variables' values when optimal
\* (the candidates are computed once and handed over as a value)
Optimize(m, p, report) ==
    CHOOSE r \in {Solved(m, V, report) : V \in {Candidates(m, p)}} : TRUE

(***************************************************************************)
(* The procedures.  util.var2val and util.draw_samples are not part of     *)
(* recourse.py; they are modelled from their use: var2val reads the value  *)
(* of every variable of an array at the solution, draw_samples returns a   *)
(* sample (S, n, s) that is a function of its seed, and of fresh entropy   *)
(* when the seed is None.                                                  *)
(***************************************************************************)
FirstNames == {"X", "U", "Z+", "Z-"}

SecondNames == {"Y+", "Y-"}

\* util.var2val on the variables named names
var2val(m, names) == [name \in names |-> m.x[name]]

\* convert: var2val(o).astype(int) if intvars else var2val(o)
convert(m, names, iv) ==
    [name \in names |-> IF iv THEN astype_int(var2val(m, names)[name]) ELSE var2val(m, names)[name]]

\* an exception left the procedure
Raised == [raised |-> TRUE]

\* number of scenarios samples.shape[0]
NumScen == samples.shape[1]

EV_model(p, iv) ==
    LET m1 == add_1st_stage_variables(Model("EV"), p, iv)
        m2 == add_2nd_stage_variables(m1, p, 1, iv)
        m3 == setObjective(m2, 0, TRUE, TRUE)
        m4 == add_1st_stage_constraints(m3, p)
        d_mean == IF iv THEN astype_int(p.demand_mean) ELSE p.demand_mean
    IN add_2nd_stage_constraints(m4, p, Symbolic, d_mean)

EEV_model(p, EV_vars1, iv) ==
    LET m1 == add_2nd_stage_variables(Model("EEV"), p, 1, iv)
        m2 == setObjective(m1, get_1st_stage_objective(p, EV_vars1), FALSE, TRUE)
    IN add_2nd_stage_constraints(m2, p, EV_vars1, None)

\* the model of optimize_WS (one scenario) and the main model of run_MRP
\* (S scenarios): full first and second stage, demand as placeholder
LSDE_placeholder_model(p, S, iv) ==
    LET m1 == add_1st_stage_variables(Model("LSDE"), p, iv)
        m2 == add_2nd_stage_variables(m1, p, S, iv)
        m3 == setObjective(m2, 0, TRUE, TRUE)
        m4 == add_1st_stage_constraints(m3, p)
    IN add_2nd_stage_constraints(m4, p, Symbolic, None)

TS_model(p, smp, iv) ==
    LET m1 == add_1st_stage_variables(Model("LSDE"), p, iv)
        m2 == add_2nd_stage_variables(m1, p, smp.shape[1], iv)
        m3 == setObjective(m2, 0, TRUE, TRUE)
        m4 == add_1st_stage_constraints(m3, p)
    IN add_2nd_stage_constraints(m4, p, Symbolic, smp)

sub_model(p, iv) ==
    LET m1 == addVars(Model("sub"), "X", <<p.n, p.s>>, 0, <<0>>, CONTINUOUS)
        m2 == add_2nd_stage_variables(m1, p, 1, iv)
        m3 == setObjective(m2, 0, FALSE, TRUE)
    IN add_2nd_stage_constraints(m3, p, Symbolic, None)

\* if mdl.Status != GRB.INFEASIBLE: results.append(mdl.ObjVal)
collect_prepend(res, m) ==
    IF m.Status # INFEASIBLE THEN <<m.ObjVal>> \o res ELSE res

collect(res, m) ==
    IF m.Status # INFEASIBLE THEN Append(res, m.ObjVal) ELSE res

\* reading mdl.ObjVal raises when the model holds no solution
NoObjVal(m) == m.ObjVal = None

LogFix(k, value) == [op |-> "fix_var", i |-> k, value |-> value]

LogOptimize(k, m) == [op |-> "optimize", i |-> k, Status |-> m.Status, ObjVal |-> m.ObjVal]

(***************************************************************************)
(* Spec: optimize_EV, optimize_EEV (with the solution of EV), optimize_WS  *)
(* and optimize_TS called one after the other on the same Parameters and   *)
(* sample array.  A procedure that raises leaves [raised |-> TRUE] in ret. *)
(***************************************************************************)
Samples == {Stack(q) : q \in UNION {[1..S -> ScenSet] : S \in 1..MaxScen}}

Init ==
    /\ inp = None /\ out = None
    /\ pars \in ParsSet
    /\ intvars \in BOOLEAN
    /\ samples \in Samples
    /\ pc = "EV"
    /\ mdl = NoModel /\ sub = NoModel
    /\ i = 0 /\ results = <<>> /\ ret = <<>> /\ mrp = None /\ log = <<>>

EV_build ==
    /\ pc = "EV"
    /\ mdl' = EV_model(pars, intvars)
    /\ pc' = "EV_optimize"
    /\ UNCHANGED <<inp, out, pars, intvars, samples, sub, i, results, ret, mrp, log>>

EV_optimize ==
    /\ pc = "EV_optimize"
    /\ \E report \in NoSolutionStatus : mdl' = Optimize(mdl, pars, report)
    /\ pc' = "EV_return"
    /\ UNCHANGED <<inp, out, pars, intvars, samples, sub, i, results, ret, mrp, log>>

EV_return ==
    /\ pc = "EV_return"
    /\ IF NoObjVal(mdl)
       THEN /\ ret' = ("EV" :> Raised) @@ ret
            /\ mdl' = mdl
       ELSE /\ ret' = ("EV" :> [raised |-> FALSE, objval |-> mdl.ObjVal,
                                sol1 |-> convert(mdl, FirstNames, intvars),
                                sol2 |-> convert(mdl, SecondNames, intvars)]) @@ ret
            /\ mdl' = dispose(mdl)
    /\ pc' = "EEV"
    /\ UNCHANGED <<inp, out, pars, intvars, samples, sub, i, results, mrp, log>>

EEV_build ==
    /\ pc = "EEV"
    /\ ~ret["EV"].raised
    /\ mdl' = EEV_model(pars, ret["EV"].sol1, intvars)
    /\ results' = <<>>
    /\ i' = 0
    /\ log' = <<>>
    /\ pc' = "EEV_loop"
    /\ UNCHANGED <<inp, out, pars, intvars, samples, sub, ret, mrp>>

EEV_fix ==
    /\ pc = "EEV_loop"
    /\ i < NumScen
    /\ mdl' = fix_var(mdl, "demand", Scenario(samples, i))
    /\ log' = Append(log, LogFix(i, Scenario(samples, i)))
    /\ pc' = "EEV_optimize"
    /\ UNCHANGED <<inp, out, pars, intvars, samples, sub, i, results, ret, mrp>>

EEV_optimize ==
    /\ pc = "EEV_optimize"
    /\ \E report \in NoSolutionStatus : mdl' = Optimize(mdl, pars, report)
    /\ log' = Append(log, LogOptimize(i, mdl'))
    /\ pc' = "EEV_collect"
    /\ UNCHANGED <<inp, out, pars, intvars, samples, sub, i, results, ret, mrp>>

EEV_collect ==
    /\ pc = "EEV_collect"
    /\ IF mdl.Status # INFEASIBLE /\ NoObjVal(mdl)
       THEN /\ ret' = ("EEV" :> Raised) @@ ret
            /\ pc' = "WS"
            /\ UNCHANGED <<results, i>>
       ELSE /\ results' = collect(results, mdl)
            /\ i' = i + 1
            /\ pc' = "EEV_loop"
            /\ ret' = ret
    /\ UNCHANGED <<inp, out, pars, intvars, samples, mdl, sub, mrp, log>>

EEV_return ==
    /\ pc = "EEV_loop"
    /\ i = NumScen
    /\ mdl' = dispose(mdl)
    /\ ret' = ("EEV" :> [raised |-> FALSE, objs |-> results]) @@ ret
    /\ pc' = "WS"
    /\ UNCHANGED <<inp, out, pars, intvars, samples, sub, i, results, mrp, log>>

WS_build ==
    /\ pc = "WS"
    /\ mdl' = LSDE_placeholder_model(pars, 1, intvars)
    /\ results' = <<>>
    /\ i' = 0
    /\ log' = <<>>
    /\ pc' = "WS_loop"
    /\ UNCHANGED <<inp, out, pars, intvars, samples, sub, ret, mrp>>

WS_fix ==
    /\ pc = "WS_loop"
    /\ i < NumScen
    /\ mdl' = fix_var(mdl, "demand", Scenario(samples, i))
    /\ log' = Append(log, LogFix(i, Scenario(samples, i)))
    /\ pc' = "WS_optimize"
    /\ UNCHANGED <<inp, out, pars, intvars, samples, sub, i, results, ret, mrp>>

WS_optimize ==
    /\ pc = "WS_optimize"
    /\ \E report \in NoSolutionStatus : mdl' = Optimize(mdl, pars, report)
    /\ log' = Append(log, LogOptimize(i, mdl'))
    /\ pc' = "WS_collect"
    /\ UNCHANGED <<inp, out, pars, intvars, samples, sub, i, results, ret, mrp>>

WS_collect ==
    /\ pc = "WS_collect"
    /\ IF mdl.Status # INFEASIBLE /\ NoObjVal(mdl)
       THEN /\ ret' = ("WS" :> Raised) @@ ret
            /\ pc' = "TS"
            /\ UNCHANGED <<results, i>>
       ELSE /\ results' = collect(results, mdl)
            /\ i' = i + 1
            /\ pc' = "WS_loop"
            /\ ret' = ret
    /\ UNCHANGED <<inp, out, pars, intvars, samples, mdl, sub, mrp, log>>

\* optimize_WS returns its list; it never calls mdl.dispose()
WS_return ==
    /\ pc = "WS_loop"
    /\ i = NumScen
    /\ ret' = ("WS" :> [raised |-> FALSE, objs |-> results]) @@ ret
    /\ pc' = "TS"
    /\ UNCHANGED <<inp, out, pars, intvars, samples, mdl, sub, i, results, mrp, log>>

TS_build ==
    /\ pc = "TS"
    /\ mdl' = TS_model(pars, samples, intvars)
    /\ pc' = "TS_optimize"
    /\ UNCHANGED <<inp, out, pars, intvars, samples, sub, i, results, ret, mrp, log>>

TS_optimize ==
    /\ pc = "TS_optimize"
    /\ \E report \in NoSolutionStatus : mdl' = Optimize(mdl, pars, report)
    /\ pc' = "TS_return"
    /\ UNCHANGED <<inp, out, pars, intvars, samples, sub, i, results, ret, mrp, log>>

\* purchase_prob = (sol2['Y+'] > 0).sum() / sol2['Y+'].size
purchase_prob(sol2) ==
    Rat(Cardinality({q \in 1..Len(sol2["Y+"].flat) : sol2["Y+"].flat[q] > 0}), Len(sol2["Y+"].flat))

TS_return ==
    /\ pc = "TS_return"
    /\ IF NoObjVal(mdl)
       THEN /\ ret' = ("TS" :> Raised) @@ ret
            /\ mdl' = mdl
       ELSE /\ ret' = ("TS" :> [raised |-> FALSE, objval |-> mdl.ObjVal,
                                sol1 |-> convert(mdl, FirstNames, intvars),
                                purchase_prob |-> purchase_prob(convert(mdl, SecondNames, intvars))]) @@ ret
            /\ mdl' = dispose(mdl)
    /\ pc' = "Done"
    /\ UNCHANGED <<inp, out, pars, intvars, samples, sub, i, results, mrp, log>>

Next ==
    \/ EV_build \/ EV_optimize \/ EV_return
    \/ EEV_build \/ EEV_fix \/ EEV_optimize \/ EEV_collect \/ EEV_return
    \/ WS_build \/ WS_fix \/ WS_optimize \/ WS_collect \/ WS_return
    \/ TS_build \/ TS_optimize \/ TS_return

Spec == Init /\ [][Next]_vars

(***************************************************************************)
(* Properties of the scenario loops of optimize_EEV and optimize_WS.       *)
(***************************************************************************)
\* the objectives of the solves of a log that did not end INFEASIBLE, in order
RECURSIVE Kept(_)
Kept(lg) ==
    IF lg = <<>> THEN <<>>
    ELSE IF Head(lg).op = "optimize" /\ Head(lg).Status # INFEASIBLE
    THEN <<Head(lg).ObjVal>> \o Kept(Tail(lg))
    ELSE Kept(Tail(lg))

\* the objectives of the solves of a log that ended OPTIMAL, in order
RECURSIVE KeptOptimal(_)
KeptOptimal(lg) ==
    IF lg = <<>> THEN <<>>
    ELSE IF Head(lg).op = "optimize" /\ Head(lg).Status = OPTIMAL
    THEN <<Head(lg).ObjVal>> \o KeptOptimal(Tail(lg))
    ELSE KeptOptimal(Tail(lg))

\* a solve that left a status other than INFEASIBLE and no objective value:
\* the loop reads mdl.ObjVal of it, which raises
Aborting(e) == e.op = "optimize" /\ e.Status # INFEASIBLE /\ e.ObjVal = None

\* the loop of the procedure that has just ended was left by an exception
Aborted == log # <<>> /\ Aborting(log[Len(log)])

\* the number of fix_var and optimize() calls the loop has made at each position
LoopPosition ==
    CASE pc \in {"EEV_loop", "WS_loop"} -> 2 * i
      [] pc \in {"EEV_optimize", "WS_optimize"} -> 2 * i + 1
      [] pc \in {"EEV_collect", "WS_collect"} -> 2 * i + 2
      [] pc \in {"WS", "TS"} -> IF Aborted THEN 2 * i + 2 ELSE 2 * NumScen

\* the calls made so far are fix_var of scenario 0, optimize, fix_var of
\* scenario 1, optimize, ...: each scenario in index order, fixed once and
\* optimized once
CallsInOrder ==
    /\ Len(log) = LoopPosition
    /\ mdl.solves = Len(log) \div 2
    /\ \A j \in 1..Len(log) :
          /\ log[j].i = (j - 1) \div 2
          /\ log[j].op = (IF j % 2 = 1 THEN "fix_var" ELSE "optimize")
          /\ j % 2 = 1 => log[j].value = Scenario(samples, log[j].i)

\* C1 as stated: in optimize_EEV and optimize_WS every scenario is fixed and
\* optimized exactly once, in index order; the objective of a solve is
\* appended when it ended optimal and left out when it ended with any other
\* status; and the loop is never aborted: the procedure ends by returning the
\* list after all S scenarios.
ScenarioLoopNeverAborted ==
    pc \in {"EEV_loop", "EEV_optimize", "EEV_collect", "WS",
            "WS_loop", "WS_optimize", "WS_collect", "TS"} =>
        /\ CallsInOrder
        /\ results = KeptOptimal(SubSeq(log, 1, 2 * i))
        /\ pc = "WS" => /\ Len(log) = 2 * NumScen
                        /\ ret["EEV"] = [raised |-> FALSE, objs |-> KeptOptimal(log)]
        /\ pc = "TS" => /\ Len(log) = 2 * NumScen
                        /\ ret["WS"] = [raised |-> FALSE, objs |-> KeptOptimal(log)]

\* C1, amended: in optimize_EEV and optimize_WS the scenarios are fixed and
\* optimized one at a time in index order, each at most once.  A solve that
\* ended INFEASIBLE is left out and the loop goes on.  After any other
\* status the loop reads mdl.ObjVal: the value is appended when the solver
\* has one, and when it has none (INF_OR_UNBD) the read raises, the loop is
\* aborted at that scenario and the procedure returns no list.  So no solve
\* before the last one made is an aborting one; the list collected so far
\* holds the objectives of the solves that did not end INFEASIBLE, in
\* scenario order; and the procedure ends either by returning that list
\* after all S scenarios, or by the exception right after the first aborting
\* solve.
ScenarioLoopSkipsInfeasibleOnly ==
    pc \in {"EEV_loop", "EEV_optimize", "EEV_collect", "WS",
            "WS_loop", "WS_optimize", "WS_collect", "TS"} =>
        /\ CallsInOrder
        /\ \A j \in 1..Len(log) - 1 : ~Aborting(log[j])
        /\ results = Kept(SubSeq(log, 1, 2 * i))
        /\ pc = "WS" =>
              ret["EEV"] = (IF Aborted THEN Raised
                            ELSE [raised |-> FALSE, objs |-> Kept(log)])
        /\ pc = "TS" =>
              ret["WS"] = (IF Aborted THEN Raised
                           ELSE [raised |-> FALSE, objs |-> Kept(log)])

\* optimize_WS has returned after an INFEASIBLE first scenario, which it left
\* out, and an optimal second scenario, which it kept
ScenarioLoopSkipsInfeasibleOnlyWitness ==
    /\ pc = "TS"
    /\ Len(log) = 4
    /\ log[2].Status = INFEASIBLE
    /\ log[4].Status = OPTIMAL
    /\ ret["WS"] = [raised |-> FALSE, objs |-> <<log[4].ObjVal>>]

\* optimize_WS has kept the objective of its first scenario and was then
\* aborted by the second, whose solve ended INF_OR_UNBD
ScenarioLoopAborted ==
    /\ pc = "TS"
    /\ Len(log) = 4
    /\ log[2].Status = OPTIMAL
    /\ log[4].Status = INF_OR_UNBD
    /\ results = <<log[2].ObjVal>>
    /\ ret["WS"] = Raised

\* scenario k (0-based) of the samples asks, in some period, for more of a
\* resource than the capacity B plus the extra-capacity bound UB
OverCapacity(k) ==
    \E q \in 1..pars.m * pars.s :
        flatten(Sub(TMatMul(pars.A, Scenario(samples, k)), Add(pars.B, pars.UB)))[q] > 0

\* scenario k has a solution of the EEV model: always with continuous
\* variables, and with integer variables when its demand is integral
Solvable(k) ==
    intvars => \A q \in 1..pars.n * pars.s : IsIntegral(Scenario(samples, k).flat[q])

\* C2 as stated: when the samples hold a scenario over capacity, the list
\* returned by optimize_EEV is strictly shorter than the number of scenarios.
OverCapacityScenarioSkipped ==
    ("EEV" \in DOMAIN ret /\ \E k \in 0..NumScen - 1 : OverCapacity(k)) =>
        /\ ~ret["EEV"].raised
        /\ Len(ret["EEV"].objs) < NumScen

\* C2, amended: capacity plays no part in optimize_EEV.  Its model has only
\* the demand balance with X fixed, and the shortage Y+ covers any demand, so
\* a scenario over capacity is solved and its objective returned.  With
\* continuous variables optimize_EEV always returns, and the list it returns
\* has one entry per scenario; with integer variables the list it returns has
\* one entry per scenario whose demand is integral.
OverCapacityScenarioKept ==
    "EEV" \in DOMAIN ret =>
        /\ ~intvars => ~ret["EEV"].raised
        /\ ~ret["EEV"].raised =>
              Len(ret["EEV"].objs) = Cardinality({k \in 0..NumScen - 1 : Solvable(k)})

\* optimize_EEV has returned an objective for every scenario although one of
\* them is over capacity
OverCapacityScenarioKeptWitness ==
    /\ "EEV" \in DOMAIN ret
    /\ ~ret["EEV"].raised
    /\ \E k \in 0..NumScen - 1 : OverCapacity(k)
    /\ Len(ret["EEV"].objs) = NumScen

\* C3: when a procedure has ended, by return or by exception, the model it
\* created is disposed.
ModelsReleased ==
    pc \in {"EEV", "WS", "TS", "Done"} => mdl.disposed

\* the mean of a list of objectives
Avg(objs) == RatDiv(RatSum(objs), Len(objs))

\* C5: with continuous variables, on the same Parameters and samples, the
\* mean of the objectives of optimize_WS is at most the objective of
\* optimize_TS, which is at most the mean of the objectives of optimize_EEV
\* run with the first-stage solution of optimize_EV.
ValueOfInformationOrdering ==
    (pc = "Done" /\ ~intvars) =>
        /\ ~ret["EEV"].raised /\ ~ret["WS"].raised /\ ~ret["TS"].raised
        /\ Len(ret["WS"].objs) = NumScen
        /\ Len(ret["EEV"].objs) = NumScen
        /\ RatLeq(Avg(ret["WS"].objs), ret["TS"].objval)
        /\ RatLeq(ret["TS"].objval, Avg(ret["EEV"].objs))

\* all four procedures have returned and both inequalities are strict
ValueOfInformationOrderingWitness ==
    /\ pc = "Done" /\ ~intvars /\ NumScen >= 2
    /\ ~RatLeq(ret["TS"].objval, Avg(ret["WS"].objs))
    /\ ~RatLeq(Avg(ret["EEV"].objs), ret["TS"].objval)

NonNegative(sol) ==
    \A name \in DOMAIN sol : \A q \in 1..Len(sol[name].flat) : sol[name].flat[q] >= 0

\* C10: every entry of X, U, Z+, Z-, Y+, Y- of the solutions returned by
\* optimize_EV (first and second stage) and optimize_TS (first stage), after
\* the conversion, is >= 0, with continuous and with integer variables.
SolutionsNonNegative ==
    /\ ("EV" \in DOMAIN ret /\ ~ret["EV"].raised) =>
          /\ DOMAIN ret["EV"].sol1 = FirstNames /\ NonNegative(ret["EV"].sol1)
          /\ DOMAIN ret["EV"].sol2 = SecondNames /\ NonNegative(ret["EV"].sol2)
    /\ ("TS" \in DOMAIN ret /\ ~ret["TS"].raised) =>
          /\ DOMAIN ret["TS"].sol1 = FirstNames /\ NonNegative(ret["TS"].sol1)

\* optimize_EV and optimize_TS have returned solutions with integer
\* variables, with some production in the plan of TS and some production or
\* shortage in that of EV
SolutionsNonNegativeWitness ==
    /\ pc = "Done" /\ intvars
    /\ ~ret["EV"].raised /\ ~ret["TS"].raised
    /\ sum(ret["TS"].sol1["X"]) > 0
    /\ sum(ret["EV"].sol1["X"]) + sum(ret["EV"].sol2["Y+"]) > 0

(***************************************************************************)
(* SpecMRP: run_MRP called twice in a row with the same arguments; the     *)
(* value returned by the first call is kept in ret["MRP1"] and that of the *)
(* second in ret["MRP2"].  The seed argument is <<>> for None and <<n>>    *)
(* for the integer n.  The value returned, G_bar + t(alpha, replicas - 1)  *)
(* * sG / sqrt(replicas), is kept as the exact G_bar and sG^2 it is        *)
(* computed from.                                                          *)
(***************************************************************************)
SeedSet == 0..MaxSeed

\* util.draw_samples(S, pars, asint=asint, seed=seed): a function of the seed
\* when one is given, and of fresh entropy when seed is None
draw_samples(S, p, asint, seed, entropy) ==
    LET e == IF seed = <<>> THEN entropy ELSE seed[1]
    IN Stack([j \in 1..S |->
                 LET scen == ScenList[((e * S + j - 1) % Len(ScenList)) + 1]
                 IN IF asint THEN astype_int(scen) ELSE scen])

\* sample = util.draw_samples(S, pars, asint=intvars, seed=seed)
MRP_sample_unseeded(S, p, iv, seed, entropy) == draw_samples(S, p, iv, <<>>, entropy)

MRP_sample(S, p, iv, seed, entropy) == draw_samples(S, p, iv, seed, entropy)

\* candidate solutions handed to run_MRP: producing nothing, and the
\* first-stage solution of optimize_EV
ZeroPlan(p) ==
    ("X" :> zeros(<<p.n, p.s>>)) @@ ("U" :> zeros(<<p.m, p.s>>))
        @@ ("Z+" :> zeros(<<p.s - 1>>)) @@ ("Z-" :> zeros(<<p.s - 1>>))

EVPlan(p, iv) == convert(Optimize(EV_model(p, iv), p, INFEASIBLE), FirstNames, iv)

\* G_bar = G.mean() and sG^2 = 1 / (replicas - 1) * np.square(G - G_bar).sum()
CI(G, replicas) ==
    LET G_bar == RatDiv(RatSum(G), replicas)
        sq == [k \in 1..Len(G) |-> RatMul(RatSub(G[k], G_bar), RatSub(G[k], G_bar))]
    IN [raised |-> FALSE, G_bar |-> G_bar, sG2 |-> RatDiv(RatSum(sq), replicas - 1),
        replicas |-> replicas]

InitMRP ==
    /\ inp = None /\ out = None
    /\ pars \in ParsSet
    /\ intvars \in BOOLEAN
    /\ samples = None
    /\ pc = "MRP"
    /\ mdl = NoModel /\ sub = NoModel
    /\ i = 0 /\ results = <<>> /\ ret = <<>> /\ log = <<>>
    /\ \E solution \in {ZeroPlan(pars), EVPlan(pars, intvars)},
          S \in 1..MaxScen, replicas \in 2..MaxReplicas,
          seed \in {<<>>} \cup {<<e>> : e \in SeedSet} :
            mrp = [solution |-> solution, S |-> S, replicas |-> replicas, seed |-> seed,
                   run |-> 1, k |-> 0, sample |-> None, vars1_k |-> None,
                   G_k |-> Rat(0, 1), G |-> <<>>, a |-> None, b |-> None]

\* lines 474-510: the main model, the submodel, G = []
MRP_build ==
    /\ pc = "MRP"
    /\ mdl' = LSDE_placeholder_model(pars, mrp.S, intvars)
    /\ sub' = sub_model(pars, intvars)
    /\ mrp' = [mrp EXCEPT !.G = <<>>, !.k = 0]
    /\ pc' = "MRP_replica"
    /\ UNCHANGED <<inp, out, pars, intvars, samples, i, results, ret, log>>

\* lines 513-523: draw a sample, fix the demands of the main model to it,
\* solve, read x_k, G_k = 0
MRP_draw ==
    /\ pc = "MRP_replica"
    /\ mrp.k < mrp.replicas
    /\ \E entropy \in SeedSet, report \in NoSolutionStatus :
          LET sample == MRP_sample(mrp.S, pars, intvars, mrp.seed, entropy)
          IN /\ mdl' = Optimize(fix_var(mdl, "demand", sample), pars, report)
             /\ IF mdl'.x = <<>>
                THEN /\ ret' = (IF mrp.run = 1 THEN "MRP1" ELSE "MRP2") :> Raised @@ ret
                     /\ pc' = "MRP_done"
                     /\ mrp' = [mrp EXCEPT !.sample = sample]
                ELSE /\ mrp' = [mrp EXCEPT !.sample = sample,
                                           !.vars1_k = var2val(mdl', FirstNames),
                                           !.G_k = Rat(0, 1), !.a = None, !.b = None]
                     /\ pc' = "MRP_inner"
                     /\ ret' = ret
    /\ i' = 0
    /\ UNCHANGED <<inp, out, pars, intvars, samples, sub, results, log>>

\* lines 526-529: fix the submodel to scenario i and to the candidate
\* solution, solve, a = first-stage cost of the candidate + sub.ObjVal
MRP_a ==
    /\ pc = "MRP_inner"
    /\ i < mrp.S
    /\ \E report \in NoSolutionStatus :
          sub' = Optimize(fix_var(fix_var(sub, "demand", Scenario(mrp.sample, i)),
                                  "X", mrp.solution["X"]), pars, report)
    /\ IF NoObjVal(sub')
       THEN /\ ret' = (IF mrp.run = 1 THEN "MRP1" ELSE "MRP2") :> Raised @@ ret
            /\ pc' = "MRP_done"
            /\ mrp' = mrp
       ELSE /\ mrp' = [mrp EXCEPT !.a = RatAdd(Rat(get_1st_stage_objective(pars, mrp.solution), 1),
                                               sub'.ObjVal),
                                  !.b = None]
            /\ pc' = "MRP_b"
            /\ ret' = ret
    /\ UNCHANGED <<inp, out, pars, intvars, samples, mdl, i, results, log>>

\* lines 532-536: fix X of the submodel to x_k, b = first-stage cost of x_k +
\* sub.ObjVal (no optimize() in between: ObjVal is that of the last solve),
\* G_k += (a - b) / S
MRP_b ==
    /\ pc = "MRP_b"
    /\ sub' = fix_var(sub, "X", mrp.vars1_k["X"])
    /\ mrp' = [mrp EXCEPT
                 !.b = RatAdd(Rat(get_1st_stage_objective(pars, mrp.vars1_k), 1), sub'.ObjVal),
                 !.G_k = RatAdd(@, RatDiv(RatSub(mrp.a,
                            RatAdd(Rat(get_1st_stage_objective(pars, mrp.vars1_k), 1), sub'.ObjVal)),
                            mrp.S))]
    /\ i' = i + 1
    /\ pc' = "MRP_inner"
    /\ UNCHANGED <<inp, out, pars, intvars, samples, mdl, results, ret, log>>

\* line 538: G.append(G_k)
MRP_append ==
    /\ pc = "MRP_inner"
    /\ i = mrp.S
    /\ mrp' = [mrp EXCEPT !.G = Append(@, mrp.G_k), !.k = @ + 1]
    /\ pc' = "MRP_replica"
    /\ UNCHANGED <<inp, out, pars, intvars, samples, mdl, sub, i, results, ret, log>>

\* lines 540-549: dispose both models, return the bound; the first call is
\* followed by the second
MRP_return ==
    /\ pc = "MRP_replica"
    /\ mrp.k = mrp.replicas
    /\ mdl' = dispose(mdl)
    /\ sub' = dispose(sub)
    /\ IF mrp.run = 1
       THEN /\ ret' = ("MRP1" :> CI(mrp.G, mrp.replicas)) @@ ret
            /\ mrp' = [mrp EXCEPT !.run = 2, !.k = 0, !.sample = None, !.vars1_k = None,
                                  !.G_k = Rat(0, 1), !.G = <<>>, !.a = None, !.b = None]
            /\ pc' = "MRP"
       ELSE /\ ret' = ("MRP2" :> CI(mrp.G, mrp.replicas)) @@ ret
            /\ mrp' = mrp
            /\ pc' = "MRP_done"
    /\ UNCHANGED <<inp, out, pars, intvars, samples, i, results, log>>

NextMRP ==
    \/ MRP_build \/ MRP_draw \/ MRP_a \/ MRP_b \/ MRP_append \/ MRP_return

SpecMRP == InitMRP /\ [][NextMRP]_vars

\* C4: the term b accumulated into G_k is the first-stage cost of x_k plus
\* the optimal recourse cost of the submodel solved with X fixed to x_k under
\* the scenario that a was computed for.
GapTermSolvedAtXk ==
    (pc = "MRP_inner" /\ mrp.b # None) =>
        RatEq(mrp.b, RatAdd(Rat(get_1st_stage_objective(pars, mrp.vars1_k), 1),
                            Optimize(sub, pars, INFEASIBLE).ObjVal))

\* C8: two calls of run_MRP with the same arguments and the same seed, not
\* None, return the same bound.
MRPDeterministic ==
    (pc = "MRP_done" /\ mrp.seed # <<>>) =>
        /\ ~ret["MRP1"].raised /\ ~ret["MRP2"].raised
        /\ RatEq(ret["MRP1"].G_bar, ret["MRP2"].G_bar)
        /\ RatEq(ret["MRP1"].sG2, ret["MRP2"].sG2)
        /\ ret["MRP1"].replicas = ret["MRP2"].replicas

\* both calls have returned, with a seed, two scenarios per sample and a
\* positive gap estimate
MRPDeterministicWitness ==
    /\ pc = "MRP_done" /\ mrp.seed # <<>> /\ mrp.S >= 2
    /\ ~ret["MRP1"].raised /\ ~ret["MRP2"].raised
    /\ ret["MRP1"].G_bar.num > 0

(***************************************************************************)
(* The replicas of run_MRP.                                                *)
(***************************************************************************)
\* the samples the next call of line 513 can return
NextSamples == {MRP_sample(mrp.S, pars, intvars, mrp.seed, entropy) : entropy \in SeedSet}

\* run_MRP is about to start a replica that is not the first of the call
BetweenReplicas == pc = "MRP_replica" /\ 0 < mrp.k /\ mrp.k < mrp.replicas

\* the main model has been fixed to the sample of the last replica and has
\* been solved once per replica
ReplicaSolvedOnce ==
    BetweenReplicas =>
        /\ mdl.solves = mrp.k
        /\ mdl.vars["demand"].lb = flatten(mrp.sample)
        /\ mdl.vars["demand"].ub = flatten(mrp.sample)
        /\ Len(mrp.G) = mrp.k

\* C12: for any seed argument, None or an integer, every replica draws a
\* sample of its own, a draw that is not bound to repeat the sample of the
\* replica before it, and the main model is fixed to that sample and solved
\* exactly once per replica.
ReplicaDrawsFresh ==
    BetweenReplicas =>
        /\ NextSamples # {mrp.sample}
        /\ mdl.solves = mrp.k
        /\ mdl.vars["demand"].lb = flatten(mrp.sample)

\* the same with seed = None only
ReplicaDrawsFreshUnseeded ==
    (BetweenReplicas /\ mrp.seed = <<>>) =>
        /\ NextSamples # {mrp.sample}
        /\ mdl.solves = mrp.k
        /\ mdl.vars["demand"].lb = flatten(mrp.sample)

\* with an integer seed the replicas of a call all work on one sample
SeededReplicasRepeat ==
    (BetweenReplicas /\ mrp.seed # <<>>) => NextSamples = {mrp.sample}

(***************************************************************************)
(* SpecLoops: every procedure that solves one model again and again, the   *)
(* pipeline of Spec and the two calls of SpecMRP, under one specification. *)
(***************************************************************************)
InitLoops == Init \/ InitMRP

NextLoops == Next \/ NextMRP

SpecLoops == InitLoops /\ [][NextLoops]_vars

\* from model m to model m2 nothing changed but the bounds of the variable
\* groups named in free (and the outcome of the last solve and the disposal);
\* a group of free that changed has lb = ub on every entry
OnlyBoundsChange(m, m2, free) ==
    /\ m2.name = m.name
    /\ m2.constrs = m.constrs
    /\ m2.objective = m.objective
    /\ m2.data = m.data
    /\ DOMAIN m2.vars = DOMAIN m.vars
    /\ \A name \in DOMAIN m.vars :
          /\ m2.vars[name].shape = m.vars[name].shape
          /\ m2.vars[name].vtype = m.vars[name].vtype
          /\ name \notin free => m2.vars[name] = m.vars[name]
          /\ m2.vars[name] # m.vars[name] =>
                /\ m2.vars[name].bounded
                /\ m2.vars[name].lb = m2.vars[name].ub

\* the positions between the build and the return of a procedure with a loop
InEEVorWSLoop ==
    pc \in {"EEV_loop", "EEV_optimize", "EEV_collect", "WS_loop", "WS_optimize", "WS_collect"}

InMRPLoop == pc \in {"MRP_replica", "MRP_inner", "MRP_b"}

ModelReuseStep ==
    /\ InEEVorWSLoop =>
          /\ OnlyBoundsChange(mdl, mdl', {"demand"})
          /\ mdl'.vars["demand"] # mdl.vars["demand"] =>
                mdl'.vars["demand"].lb = flatten(Scenario(samples, i))
          /\ mdl'.solves # mdl.solves => mdl'.vars = mdl.vars
    /\ InMRPLoop =>
          /\ OnlyBoundsChange(mdl, mdl', {"demand"})
          /\ OnlyBoundsChange(sub, sub', {"demand", "X"})

\* C11: in optimize_EEV, optimize_WS and run_MRP (main model and submodel)
\* the model is built once before the loop; in every step from then until
\* the procedure ends the variables, the constraints and the objective of
\* the model stay as built, and the only change to the model is that of the
\* bounds of the demand placeholder (and of the placeholder X of the
\* submodel), which are set to lb = ub = the value given to fix_var.
ModelReuse == [][ModelReuseStep]_vars

\* optimize_WS has solved its one model for two different scenarios: the
\* demand placeholder is fixed to the second scenario, everything else is as
\* built
ModelReuseWitness ==
    /\ pc = "WS_loop" /\ i = 2 /\ mdl.solves = 2
    /\ Scenario(samples, 0) # Scenario(samples, 1)
    /\ mdl.vars["demand"].lb = flatten(Scenario(samples, 1))
    /\ mdl.vars["demand"].ub = flatten(Scenario(samples, 1))
    /\ OnlyBoundsChange(LSDE_placeholder_model(pars, 1, intvars), mdl, {"demand"})

(***************************************************************************)
(* Variables the builder-function specifications leave alone.              *)
(***************************************************************************)
procvars == <<pars, intvars, samples, pc, mdl, sub, i, results, ret, mrp, log>>

NoProcedure ==
    /\ pars = None /\ intvars = FALSE /\ samples = None /\ pc = "builder"
    /\ mdl = NoModel /\ sub = NoModel /\ i = 0 /\ results = <<>>
    /\ ret = <<>> /\ mrp = None /\ log = <<>>

\* q[from + 1 .. from + len]
Slice(q, from, len) == SubSeq(q, from + 1, from + len)

(***************************************************************************)
(* SpecDemand: add_2nd_stage_constraints on one product and two periods,   *)
(* with one scenario (2-D arrays) or two (3-D arrays), X numeric (as in    *)
(* EEV) or a variable, demand given as data or as placeholder variables    *)
(* that fix_var fixes afterwards.  Init draws a point of the variables.    *)
(***************************************************************************)
DemandPars == [n |-> 1, s |-> 2]

DemandShape(S) == IF S = 1 THEN <<1, 2>> ELSE <<S, 1, 2>>

DataInput(S, xmode, dshape, q) ==
    [S |-> S, xmode |-> xmode, mode |-> "data",
     X |-> Nd(<<1, 2>>, Slice(q, 0, 2)),
     Yp |-> Nd(DemandShape(S), Slice(q, 2, 2 * S)),
     Ym |-> Nd(DemandShape(S), Slice(q, 2 + 2 * S, 2 * S)),
     demands |-> Nd(dshape, Slice(q, 2 + 4 * S, 2 * S)),
     value |-> None]

PlaceholderInput(S, xmode, q) ==
    [S |-> S, xmode |-> xmode, mode |-> "placeholder",
     X |-> Nd(<<1, 2>>, Slice(q, 0, 2)),
     Yp |-> Nd(DemandShape(S), Slice(q, 2, 2 * S)),
     Ym |-> Nd(DemandShape(S), Slice(q, 2 + 2 * S, 2 * S)),
     demands |-> Nd(DemandShape(S), Slice(q, 2 + 4 * S, 2 * S)),
     value |-> Nd(<<S, 1, 2>>, Slice(q, 2 + 6 * S, 2 * S))]

\* the point of the model's variables that inp describes
DemandPoint(in) ==
    (IF in.xmode = "variable" THEN "X" :> in.X ELSE <<>>)
    @@ (IF in.mode = "placeholder" THEN "demand" :> in.demands ELSE <<>>)
    @@ ("Y+" :> in.Yp) @@ ("Y-" :> in.Ym)

DemandModel(in) ==
    LET m0 == Model("m")
        m1 == IF in.xmode = "variable"
              THEN addVars(m0, "X", <<1, 2>>, 0, <<>>, CONTINUOUS) ELSE m0
        m2 == add_2nd_stage_variables(m1, DemandPars, in.S, FALSE)
    IN add_2nd_stage_constraints(m2, DemandPars,
           IF in.xmode = "variable" THEN Symbolic ELSE ("X" :> in.X),
           IF in.mode = "data" THEN in.demands ELSE None)

InitDemand ==
    /\ \E S \in {1, 2}, xmode \in {"numeric", "variable"} :
          \/ \E q \in SeqsUpTo(2 + 6 * S, MaxTotal), dshape \in {DemandShape(S), <<S, 1, 2>>} :
                inp = DataInput(S, xmode, dshape, q)
          \/ \E q \in SeqsUpTo(2 + 8 * S, MaxTotal) :
                inp = PlaceholderInput(S, xmode, q)
    /\ out = None
    /\ NoProcedure

AddSecondStage ==
    /\ pc = "builder" /\ out = None /\ "Yp" \in DOMAIN inp
    /\ out' = [m |-> DemandModel(inp), fixed |-> FALSE,
               feasible |-> Satisfies(DemandModel(inp), DemandPars, DemandPoint(inp))]
    /\ UNCHANGED <<inp, procvars>>

FixDemand ==
    /\ pc = "builder" /\ out # None /\ "Yp" \in DOMAIN inp
    /\ inp.mode = "placeholder" /\ ~out.fixed
    /\ LET m == fix_var(out.m, "demand", inp.value)
       IN out' = [m |-> m, fixed |-> TRUE,
                  feasible |-> Satisfies(m, DemandPars, DemandPoint(inp))]
    /\ UNCHANGED <<inp, procvars>>

NextDemand == AddSecondStage \/ FixDemand

SpecDemand == InitDemand /\ [][NextDemand]_vars

\* the demand the model was built or fixed with
DemandInForce ==
    IF inp.mode = "data" THEN inp.demands
    ELSE IF out.fixed THEN inp.value ELSE zeros(DemandShape(inp.S))

\* entry (k, 0, t) of a (2-D or 3-D) array over one product and two periods
At(arr, k, t) == arr.flat[2 * k + t + 1]

\* C6: every point that satisfies a model built by add_2nd_stage_constraints
\* has, in every scenario k and period t, X[t] + Y-[k, t-1] + Y+[k, t]
\* - Y-[k, t] = demand[k, t], the carried-in surplus being 0 at t = 0,
\* whether the demand is data or a placeholder fixed by fix_var.
DemandBalance ==
    (out # None /\ "Yp" \in DOMAIN inp /\ out.feasible) =>
        \A k \in 0..inp.S - 1 : \A t \in 0..1 :
            At(inp.X, 0, t) + (IF t = 0 THEN 0 ELSE At(inp.Ym, k, t - 1))
                + At(inp.Yp, k, t) - At(inp.Ym, k, t) = At(DemandInForce, k, t)

\* a feasible point of a fixed placeholder model that carries surplus over
DemandBalanceWitness ==
    /\ out # None /\ "Yp" \in DOMAIN inp /\ out.feasible
    /\ inp.mode = "placeholder" /\ out.fixed
    /\ At(inp.Ym, 0, 0) > 0 /\ At(inp.value, 0, 1) > 0

(***************************************************************************)
(* SpecWork: add_1st_stage_variables and add_1st_stage_constraints on two  *)
(* products, two resources and three periods.  Init draws Parameters and   *)
(* a point (X, U, Z+, Z-) of the variables.                                *)
(***************************************************************************)
WorkPars(A, B, UB) ==
    [n |-> 2, s |-> 3, m |-> 2, A |-> Nd(<<2, 2>>, A),
     B |-> Nd(<<2, 3>>, [q \in 1..6 |-> B]), UB |-> Nd(<<2, 3>>, [q \in 1..6 |-> UB])]

WorkParsSet ==
    {WorkPars(<<1, 0, 1, 1>>, 1, 1), WorkPars(<<1, 2, 0, 1>>, 2, 0), WorkPars(<<0, 1, 2, 3>>, 4, 2)}

WorkPoint(q) ==
    ("X" :> Nd(<<2, 3>>, Slice(q, 0, 6))) @@ ("U" :> Nd(<<2, 3>>, Slice(q, 6, 6)))
    @@ ("Z+" :> Nd(<<2>>, Slice(q, 12, 2))) @@ ("Z-" :> Nd(<<2>>, Slice(q, 14, 2)))

WorkModel(p) == add_1st_stage_constraints(add_1st_stage_variables(Model("m"), p, FALSE), p)

InitWork ==
    /\ \E p \in WorkParsSet, q \in SeqsUpTo(16, MaxTotal) : inp = [p |-> p, pt |-> WorkPoint(q)]
    /\ out = None
    /\ NoProcedure

AddFirstStage ==
    /\ pc = "builder" /\ out = None /\ "pt" \in DOMAIN inp
    /\ out' = [m |-> WorkModel(inp.p), feasible |-> Satisfies(WorkModel(inp.p), inp.p, inp.pt)]
    /\ UNCHANGED <<inp, procvars>>

NextWork == AddFirstStage

SpecWork == InitWork /\ [][NextWork]_vars

\* C7: for every point that satisfies the first-stage constraints, the sum
\* over the s - 1 period transitions of Z+[t] - Z-[t] equals the workforce
\* coefficients A[:, -1] applied to X at the last period minus X at period 0.
WorkforceTelescopes ==
    (out # None /\ "pt" \in DOMAIN inp /\ out.feasible) =>
        sum(inp.pt["Z+"]) - sum(inp.pt["Z-"])
            = SumSeq([j \in 1..2 |-> Elem(inp.p.A, j - 1, 1)
                                        * (Elem(inp.pt["X"], j - 1, 2) - Elem(inp.pt["X"], j - 1, 0))])

\* a feasible plan whose workforce goes up and then down again
WorkforceTelescopesWitness ==
    /\ out # None /\ "pt" \in DOMAIN inp /\ out.feasible
    /\ inp.pt["Z+"].flat[1] > 0 /\ inp.pt["Z-"].flat[2] > 0
    /\ Elem(inp.pt["X"], 0, 1) > 0

(***************************************************************************)
(* SpecObj2: get_2nd_stage_objective on numeric arrays, two products and   *)
(* two periods: one scenario (2-D) and that scenario replicated (3-D).     *)
(***************************************************************************)
\* np.stack of copies of a 2-D array: shape (copies, n, s)
Replicate(arr, copies) ==
    Nd(<<copies>> \o arr.shape,
       [q \in 1..copies * Len(arr.flat) |-> arr.flat[((q - 1) % Len(arr.flat)) + 1]])

Obj2CostSet == {<<1, 1, 1, 1>>, <<3, 2, 0, 1>>, <<0, 0, 2, 5>>}

InitObj2 ==
    /\ \E Qp \in Obj2CostSet, Qm \in Obj2CostSet, q \in SeqsUpTo(8, MaxTotal), copies \in 2..MaxCopies :
          inp = [p |-> ("Q+" :> Nd(<<2, 2>>, Qp)) @@ ("Q-" :> Nd(<<2, 2>>, Qm)),
                 copies |-> copies,
                 v |-> ("Y+" :> Nd(<<2, 2>>, Slice(q, 0, 4))) @@ ("Y-" :> Nd(<<2, 2>>, Slice(q, 4, 4)))]
    /\ out = None
    /\ NoProcedure

EvalSecondStageObjective ==
    /\ pc = "builder" /\ out = None /\ "copies" \in DOMAIN inp
    /\ out' = [single |-> get_2nd_stage_objective(inp.p, inp.v),
               replicated |-> get_2nd_stage_objective(inp.p,
                    ("Y+" :> Replicate(inp.v["Y+"], inp.copies))
                    @@ ("Y-" :> Replicate(inp.v["Y-"], inp.copies)))]
    /\ UNCHANGED <<inp, procvars>>

NextObj2 == EvalSecondStageObjective

SpecObj2 == InitObj2 /\ [][NextObj2]_vars

\* C9: get_2nd_stage_objective of one scenario given in 2-D shape equals
\* its value on the 3-D array made of that scenario replicated S >= 2 times.
ScenarioCountInvariance ==
    (out # None /\ "copies" \in DOMAIN inp) => RatEq(out.single, out.replicated)

\* a replicated scenario with a positive recourse cost
ScenarioCountInvarianceWitness ==
    /\ out # None /\ "copies" \in DOMAIN inp
    /\ inp.copies >= 2 /\ out.single.num > 0 /\ out.replicated.den = inp.copies
    /\ sum(inp.v["Y+"]) > 0 /\ sum(inp.v["Y-"]) > 0

====
